---- MODULE Spec2Model ----
(***************************************************************************)
(* Model of the demo hostpath CSI driver (pkg/driver): the controller      *)
(* service (CreateVolume, DeleteVolume, ValidateVolumeCapabilities), the   *)
(* node service (NodePublishVolume, NodeUnpublishVolume) and the pieces of *)
(* the operating system they drive: a directory tree and the mount table;  *)
(* and of Driver.Run and logInterceptor (driver.go).                       *)
(*                                                                         *)
(* Spec serves calls one at a time, ClientSpec runs a client's script,     *)
(* ConcurrentSpec, ConcurrentDeleteSpec, ConcurrentNodeSpec and            *)
(* PublishDeleteSpec run calls in flight together one system call per      *)
(* step, RunSpec is Driver.Run and InterceptSpec is logInterceptor around  *)
(* one call.                                                               *)
(*                                                                         *)
(* Strings that name paths are sequences of path components: the request   *)
(* string "a/b" is <<"a", "b">>, the empty string is <<>>.  An absolute    *)
(* path is the sequence of its components below "/", so "/" itself is <<>>.*)
(***************************************************************************)
EXTENDS Integers, Sequences, FiniteSets, TLC

VARIABLES
    fs,        \* the directories that exist (absolute paths; "/" always exists)
    mounts,    \* mount table: target path -> stack of mounts, top is last
    last,      \* the last RPC served: its request and its outcome
    everPublished, \* the targets some NodePublishVolume has mounted on so far
    script,    \* scripted client: the requests it issues, in order
    results,   \* scripted client: the outcomes it has received so far
    procs,     \* concurrent calls in flight: per call its request and position
    sockets,   \* the socket files that exist
    run        \* Driver.Run: its endpoint, its position and what it did

vars ==
    <<fs, mounts, last, everPublished, script, results, procs, sockets, run>>

----------------------------------------------------------------------------
(* Bounds of the model *)

\* Publish is not issued once the mount table holds this many mounts.
MaxMounts == 2
\* Longest capability list of a ValidateVolumeCapabilities request.
MaxCaps == 2
\* Number of calls in flight at the same time.
NumCalls == 2

----------------------------------------------------------------------------
(* What clients send *)

\* Volume ids and names: "", "a", "a/b", ".", "..".
VolumeIds == {<<>>, <<"a">>, <<"a", "b">>, <<".">>, <<"..">>}

\* Targets that may carry mounts: "/pods/x", "/pods/y".
MountPoints == {<<"pods", "x">>, <<"pods", "y">>}

\* Target paths: "" and the two targets.
TargetPaths == {<<>>} \cup MountPoints

----------------------------------------------------------------------------
(* Paths *)

Front(s) == SubSeq(s, 1, Len(s) - 1)
Last(s) == s[Len(s)]

IsPrefix(p, q) == Len(p) <= Len(q) /\ SubSeq(q, 1, Len(p)) = p

\* path/filepath.Clean on a rooted path: "." is dropped, ".." removes the
\* component before it, and ".." at the root is dropped.
RECURSIVE Clean(_)
Clean(p) ==
    IF p = <<>> THEN <<>>
    ELSE LET c == Clean(Front(p))
             x == Last(p)
         IN  IF x = "." THEN c
             ELSE IF x = ".." THEN (IF c = <<>> THEN <<>> ELSE Front(c))
             ELSE Append(c, x)

\* path/filepath.Join(dir, elem): the two are concatenated and cleaned.
Join(dir, elem) == Clean(dir \o elem)

\* --state-dir, created by driver.New.
stateDir == <<"var", "state">>

\* The backing directory of a volume id.
VolumeDir(id) == Join(stateDir, id)

----------------------------------------------------------------------------
(* The directory tree *)

IsDir(f, p) == p = <<>> \/ p \in f

\* mkdir(2)
Mkdir(f, p) ==
    IF IsDir(f, p) THEN [err |-> "EEXIST", fs |-> f]
    ELSE IF ~IsDir(f, Front(p)) THEN [err |-> "ENOENT", fs |-> f]
    ELSE [err |-> "OK", fs |-> f \cup {p}]

\* A failed Mkdir taken as final, without looking at the path again.
MkdirFailedNoRecheck(f, p, e) == e

\* os.MkdirAll after a failed Mkdir: Lstat the path again, a directory there
\* is success, otherwise the Mkdir error stands.
MkdirFailed(f, p, e) == IF IsDir(f, p) THEN "OK" ELSE e

\* os.MkdirAll without its first Stat: an existing directory is an error, as
\* it is for os.Mkdir.
MkdirAllStrict(f, p) ==
    IF IsDir(f, p) THEN [err |-> "EEXIST", fs |-> f]
    ELSE [err |-> "OK", fs |-> f \cup {SubSeq(p, 1, i) : i \in 1..Len(p)}]

\* os.MkdirAll: Stat the path, a directory is success; otherwise make the
\* parent (recursively), then Mkdir the path.
RECURSIVE MkdirAll(_, _)
MkdirAll(f, p) ==
    IF IsDir(f, p) THEN [err |-> "OK", fs |-> f]
    ELSE LET up == IF Len(p) > 1 THEN MkdirAll(f, Front(p))
                   ELSE [err |-> "OK", fs |-> f]
         IN  IF up.err # "OK" THEN up
             ELSE LET m == Mkdir(up.fs, p)
                  IN  IF m.err # "OK"
                      THEN [err |-> MkdirFailed(m.fs, p, m.err), fs |-> m.fs]
                      ELSE m

\* os.Remove in place of os.RemoveAll: a missing path and a non-empty
\* directory are errors.
RemoveOnly(f, p) ==
    IF ~IsDir(f, p) THEN [err |-> "ENOENT", fs |-> f]
    ELSE IF \E q \in f : q # p /\ IsPrefix(p, q)
         THEN [err |-> "ENOTEMPTY", fs |-> f]
    ELSE [err |-> "OK", fs |-> f \ {p}]

\* os.RemoveAll: removes the path and everything below it; a missing path is
\* success.
RemoveAll(f, p) ==
    IF ~IsDir(f, p) THEN [err |-> "OK", fs |-> f]
    ELSE [err |-> "OK", fs |-> {q \in f : ~IsPrefix(p, q)}]

----------------------------------------------------------------------------
(* The mount table *)

NoMounts == [t \in MountPoints |-> <<>>]

MountsAt(m, t) == IF t \in DOMAIN m THEN m[t] ELSE <<>>

RECURSIVE SumLen(_, _)
SumLen(m, ts) ==
    IF ts = {} THEN 0
    ELSE LET t == CHOOSE x \in ts : TRUE
         IN  Len(m[t]) + SumLen(m, ts \ {t})

TotalMounts(m) == SumLen(m, DOMAIN m)

\* A mount call that attaches the mount before it finds a directory missing.
MountBeforeCheck(f, m, source, target, rdonly) ==
    [err |-> IF ~IsDir(f, source) \/ ~IsDir(f, target) THEN "ENOENT" ELSE "OK",
     mounts |-> [m EXCEPT ![target] =
                     Append(@, [src |-> source, ro |-> FALSE])]]

\* syscall.Mount(source, target, "", MS_BIND [| MS_RDONLY], ""): a new mount
\* of the source directory is put on top of whatever the target carries.
\* With MS_BIND the kernel ignores the other flag bits except MS_REC, so the
\* new mount is read-write whether or not MS_RDONLY was passed (mount(2)).
Mount(f, m, source, target, rdonly) ==
    IF ~IsDir(f, source) \/ ~IsDir(f, target)
    THEN [err |-> "ENOENT", mounts |-> m]
    ELSE [err |-> "OK",
          mounts |-> [m EXCEPT ![target] =
                          Append(@, [src |-> source, ro |-> FALSE])]]

\* umount(2) that leaves the mount in place.
UnmountKeeps(f, m, target) ==
    IF ~IsDir(f, target) THEN [err |-> "ENOENT", mounts |-> m]
    ELSE IF MountsAt(m, target) = <<>> THEN [err |-> "EINVAL", mounts |-> m]
    ELSE [err |-> "OK", mounts |-> m]

\* syscall.Unmount(target, 0): removes the topmost mount on the target;
\* ENOENT when the path does not exist, EINVAL when it is not a mount point.
Unmount(f, m, target) ==
    IF ~IsDir(f, target) THEN [err |-> "ENOENT", mounts |-> m]
    ELSE IF MountsAt(m, target) = <<>> THEN [err |-> "EINVAL", mounts |-> m]
    ELSE [err |-> "OK", mounts |-> [m EXCEPT ![target] = Front(@)]]

----------------------------------------------------------------------------
(* Requests and responses *)

\* csi.VolumeCapability_AccessMode_Mode
AccessModes ==
    {"UNKNOWN", "SINGLE_NODE_WRITER", "SINGLE_NODE_READER_ONLY",
     "MULTI_NODE_READER_ONLY", "MULTI_NODE_SINGLE_WRITER",
     "MULTI_NODE_MULTI_WRITER"}

\* A csi.VolumeCapability, reduced to its access mode.
Capability(mode) == [access_mode |-> mode]

\* An optional field is a sequence of zero or one value.
Nil == <<>>
Some(x) == <<x>>

NoResp == [kind |-> "none"]

Rejected(code, f) == [err |-> code, resp |-> NoResp, fs |-> f]

----------------------------------------------------------------------------
(* Controller service *)

\* The volume description with the capacity taken from the range's limit.
CreatedVolumeLimitBytes(req) ==
    [kind |-> "CreateVolumeResponse",
     volume_id |-> req.name,
     capacity_bytes |-> IF req.capacity_range # Nil
                        THEN req.capacity_range[1].limit_bytes
                        ELSE 0,
     volume_context |-> req.parameters]

\* controllerServer.CreateVolume, the response: the name is the volume id,
\* the capacity is the required bytes of the capacity range, zero without a
\* range, and the context is the request's parameters.
CreatedVolume(req) ==
    [kind |-> "CreateVolumeResponse",
     volume_id |-> req.name,
     capacity_bytes |-> IF req.capacity_range # Nil
                        THEN req.capacity_range[1].required_bytes
                        ELSE 0,
     volume_context |-> req.parameters]

\* CreateVolume checking the capabilities only after it made the directory.
CreateVolumeLateCheck(req, f) ==
    IF req.name = <<>> THEN Rejected("InvalidArgument", f)
    ELSE LET volumeDir == Join(stateDir, req.name)
             made == MkdirAll(f, volumeDir)
         IN  IF made.err # "OK" THEN Rejected("Internal", made.fs)
             ELSE IF Len(req.volume_capabilities) = 0
                  THEN Rejected("InvalidArgument", made.fs)
             ELSE [err |-> "OK", resp |-> CreatedVolume(req), fs |-> made.fs]

\* controllerServer.CreateVolume
CreateVolume(req, f) ==
    IF req.name = <<>> THEN Rejected("InvalidArgument", f)
    ELSE IF Len(req.volume_capabilities) = 0 THEN Rejected("InvalidArgument", f)
    ELSE LET volumeDir == Join(stateDir, req.name)
             made == MkdirAll(f, volumeDir)
         IN  IF made.err # "OK" THEN Rejected("Internal", made.fs)
             ELSE [err |-> "OK", resp |-> CreatedVolume(req), fs |-> made.fs]

\* controllerServer.DeleteVolume
DeleteVolume(req, f) ==
    IF req.volume_id = <<>> THEN Rejected("InvalidArgument", f)
    ELSE LET volumeDir == Join(stateDir, req.volume_id)
             removed == RemoveAll(f, volumeDir)
         IN  IF removed.err # "OK" THEN Rejected("Internal", removed.fs)
             ELSE [err |-> "OK",
                   resp |-> [kind |-> "DeleteVolumeResponse"],
                   fs |-> removed.fs]

\* The access modes ValidateVolumeCapabilities accepts.
SupportedModes ==
    {"SINGLE_NODE_WRITER", "SINGLE_NODE_READER_ONLY", "MULTI_NODE_READER_ONLY"}

\* ValidateVolumeCapabilities looking at the first capability only.
ValidateFirstOnly(req, f) ==
    IF req.volume_id = <<>> THEN Rejected("InvalidArgument", f)
    ELSE IF Len(req.volume_capabilities) = 0 THEN Rejected("InvalidArgument", f)
    ELSE IF req.volume_capabilities[1].access_mode \notin SupportedModes
         THEN [err |-> "OK",
               resp |-> [kind |-> "ValidateVolumeCapabilitiesResponse",
                         confirmed |-> Nil,
                         message |-> "unsupported access mode"],
               fs |-> f]
    ELSE [err |-> "OK",
          resp |-> [kind |-> "ValidateVolumeCapabilitiesResponse",
                    confirmed |-> Some(req.volume_capabilities),
                    message |-> ""],
          fs |-> f]

\* controllerServer.ValidateVolumeCapabilities: the loop returns at the first
\* capability whose mode is not supported.
ValidateVolumeCapabilities(req, f) ==
    IF req.volume_id = <<>> THEN Rejected("InvalidArgument", f)
    ELSE IF Len(req.volume_capabilities) = 0 THEN Rejected("InvalidArgument", f)
    ELSE IF \E i \in 1..Len(req.volume_capabilities) :
                req.volume_capabilities[i].access_mode \notin SupportedModes
         THEN [err |-> "OK",
               resp |-> [kind |-> "ValidateVolumeCapabilitiesResponse",
                         confirmed |-> Nil,
                         message |-> "unsupported access mode"],
               fs |-> f]
    ELSE [err |-> "OK",
          resp |-> [kind |-> "ValidateVolumeCapabilitiesResponse",
                    confirmed |-> Some(req.volume_capabilities),
                    message |-> ""],
          fs |-> f]

----------------------------------------------------------------------------
(* Node service *)

NodeRejected(code, f, m) ==
    [err |-> code, resp |-> NoResp, fs |-> f, mounts |-> m]

\* NodePublishVolume looking for the volume under the last component of its
\* id.
NodePublishVolumeBaseName(req, f, m) ==
    IF req.volume_id = <<>> THEN NodeRejected("InvalidArgument", f, m)
    ELSE IF req.target_path = <<>> THEN NodeRejected("InvalidArgument", f, m)
    ELSE IF req.volume_capability = Nil
         THEN NodeRejected("InvalidArgument", f, m)
    ELSE LET volumeDir == Join(stateDir, <<Last(req.volume_id)>>)
             src == MkdirAll(f, volumeDir)
             tgt == MkdirAll(src.fs, req.target_path)
             mnt == Mount(tgt.fs, m, volumeDir, req.target_path, req.readonly)
         IN  IF src.err # "OK" \/ tgt.err # "OK" \/ mnt.err # "OK"
             THEN NodeRejected("Internal", tgt.fs, m)
             ELSE [err |-> "OK",
                   resp |-> [kind |-> "NodePublishVolumeResponse"],
                   fs |-> tgt.fs, mounts |-> mnt.mounts]

\* nodeServer.NodePublishVolume
NodePublishVolume(req, f, m) ==
    IF req.volume_id = <<>> THEN NodeRejected("InvalidArgument", f, m)
    ELSE IF req.target_path = <<>> THEN NodeRejected("InvalidArgument", f, m)
    ELSE IF req.volume_capability = Nil
         THEN NodeRejected("InvalidArgument", f, m)
    ELSE LET volumeDir == Join(stateDir, req.volume_id)
             targetPath == req.target_path
             src == MkdirAll(f, volumeDir)
         IN  IF src.err # "OK" THEN NodeRejected("Internal", src.fs, m)
             ELSE LET tgt == MkdirAll(src.fs, targetPath)
                  IN  IF tgt.err # "OK"
                      THEN NodeRejected("Internal", tgt.fs, m)
                      ELSE LET mnt == Mount(tgt.fs, m, volumeDir, targetPath,
                                            req.readonly)
                           IN  IF mnt.err # "OK"
                               THEN NodeRejected("Internal", tgt.fs, m)
                               ELSE [err |-> "OK",
                                     resp |-> [kind |-> "NodePublishVolumeResponse"],
                                     fs |-> tgt.fs,
                                     mounts |-> mnt.mounts]

\* NodeUnpublishVolume removing the target directory after the unmount.
NodeUnpublishVolumeRemovesTarget(req, f, m) ==
    IF req.volume_id = <<>> THEN NodeRejected("InvalidArgument", f, m)
    ELSE IF req.target_path = <<>> THEN NodeRejected("InvalidArgument", f, m)
    ELSE LET um == Unmount(f, m, req.target_path)
         IN  IF um.err = "OK" \/ um.err = "EINVAL"
             THEN [err |-> "OK",
                   resp |-> [kind |-> "NodeUnpublishVolumeResponse"],
                   fs |-> f \ {req.target_path}, mounts |-> um.mounts]
             ELSE NodeRejected("Internal", f, m)

\* NodeUnpublishVolume unmounting only what is a mount of the backing
\* directory of its volume id.
NodeUnpublishVolumeOwnMount(req, f, m) ==
    IF req.volume_id = <<>> THEN NodeRejected("InvalidArgument", f, m)
    ELSE IF req.target_path = <<>> THEN NodeRejected("InvalidArgument", f, m)
    ELSE LET bound == MountsAt(m, req.target_path)
             um == IF bound # <<>>
                      /\ Last(bound).src # Join(stateDir, req.volume_id)
                   THEN [err |-> "EINVAL", mounts |-> m]
                   ELSE Unmount(f, m, req.target_path)
         IN  IF um.err = "OK" \/ um.err = "EINVAL"
             THEN [err |-> "OK",
                   resp |-> [kind |-> "NodeUnpublishVolumeResponse"],
                   fs |-> f, mounts |-> um.mounts]
             ELSE NodeRejected("Internal", f, m)

\* nodeServer.NodeUnpublishVolume: EINVAL from the unmount is success, every
\* other error is Internal.
NodeUnpublishVolume(req, f, m) ==
    IF req.volume_id = <<>> THEN NodeRejected("InvalidArgument", f, m)
    ELSE IF req.target_path = <<>> THEN NodeRejected("InvalidArgument", f, m)
    ELSE LET targetPath == req.target_path
             um == Unmount(f, m, targetPath)
         IN  IF um.err = "OK" \/ um.err = "EINVAL"
             THEN [err |-> "OK",
                   resp |-> [kind |-> "NodeUnpublishVolumeResponse"],
                   fs |-> f,
                   mounts |-> um.mounts]
             ELSE NodeRejected("Internal", f, m)

----------------------------------------------------------------------------
(* The driver serving one call at a time *)

SingleWriter == <<Capability("SINGLE_NODE_WRITER")>>

CreateVolumeRequests ==
    [op : {"CreateVolume"}, name : VolumeIds,
     volume_capabilities : {<<>>, SingleWriter},
     capacity_range : {Nil}, parameters : {{}}]

DeleteVolumeRequests == [op : {"DeleteVolume"}, volume_id : VolumeIds]

ValidateRequests ==
    [op : {"ValidateVolumeCapabilities"}, volume_id : {<<>>, <<"a">>},
     volume_capabilities :
         {<<>>, SingleWriter, <<Capability("MULTI_NODE_MULTI_WRITER")>>}]

NodePublishRequests ==
    [op : {"NodePublishVolume"}, volume_id : VolumeIds,
     target_path : TargetPaths,
     volume_capability : {Nil, Some(Capability("SINGLE_NODE_WRITER"))},
     readonly : BOOLEAN]

NodeUnpublishRequests ==
    [op : {"NodeUnpublishVolume"}, volume_id : VolumeIds,
     target_path : TargetPaths]

\* last.repeatOf is the outcome of the call served just before the last one
\* when that call carried the same request, and Nil otherwise.
NoCall ==
    [req |-> [op |-> "none"], err |-> "OK", resp |-> NoResp, repeatOf |-> Nil]

\* driver.New made the state directory.
InitFs == {<<"var">>, stateDir}

\* What the orchestrator may have made of the target paths before the first
\* call: nothing, the pods directory, or the target directory /pods/x itself.
PreparedTargets == {{}, {<<"pods">>}, {<<"pods">>, <<"pods", "x">>}}

\* Driver.Run's record once it serves on a tcp endpoint, which is where the
\* calls of the services find it.
Serving ==
    [pc |-> "serving",
     endpoint |-> [parses |-> TRUE, scheme |-> "tcp",
                   host |-> <<"0.0.0.0:9000">>, path |-> <<>>],
     addr |-> <<"0.0.0.0:9000">>, removeErr |-> "OK", listened |-> TRUE,
     err |-> "OK"]

\* Nothing is mounted and no call has been served.
Init ==
    /\ fs \in {InitFs \cup made : made \in PreparedTargets}
    /\ mounts = NoMounts
    /\ last = NoCall
    /\ everPublished = {}
    /\ script = <<>>
    /\ results = <<>>
    /\ procs = <<>>
    /\ sockets = {}
    /\ run = Serving

Served(req, out) ==
    /\ last' = [req |-> req, err |-> out.err, resp |-> out.resp,
                repeatOf |-> IF last.req = req
                             THEN Some([err |-> last.err, resp |-> last.resp])
                             ELSE Nil]
    /\ UNCHANGED <<script, results, procs, sockets, run>>

CreateVolumeCall ==
    \E req \in CreateVolumeRequests :
        LET out == CreateVolume(req, fs)
        IN  /\ fs' = out.fs
            /\ UNCHANGED <<mounts, everPublished>>
            /\ Served(req, out)

DeleteVolumeCall ==
    \E req \in DeleteVolumeRequests :
        LET out == DeleteVolume(req, fs)
        IN  /\ fs' = out.fs
            /\ UNCHANGED <<mounts, everPublished>>
            /\ Served(req, out)

ValidateVolumeCapabilitiesCall ==
    \E req \in ValidateRequests :
        LET out == ValidateVolumeCapabilities(req, fs)
        IN  /\ fs' = out.fs
            /\ UNCHANGED <<mounts, everPublished>>
            /\ Served(req, out)

NodePublishVolumeCall ==
    \E req \in NodePublishRequests :
        /\ TotalMounts(mounts) < MaxMounts
        /\ LET out == NodePublishVolume(req, fs, mounts)
           IN  /\ fs' = out.fs
               /\ mounts' = out.mounts
               /\ everPublished' = IF out.err = "OK"
                                   THEN everPublished \cup {req.target_path}
                                   ELSE everPublished
               /\ Served(req, out)

NodeUnpublishVolumeCall ==
    \E req \in NodeUnpublishRequests :
        LET out == NodeUnpublishVolume(req, fs, mounts)
        IN  /\ fs' = out.fs
            /\ mounts' = out.mounts
            /\ UNCHANGED everPublished
            /\ Served(req, out)

Next ==
    \/ CreateVolumeCall
    \/ DeleteVolumeCall
    \/ ValidateVolumeCapabilitiesCall
    \/ NodePublishVolumeCall
    \/ NodeUnpublishVolumeCall

Spec == Init /\ [][Next]_vars

----------------------------------------------------------------------------
(* Properties of the driver serving one call at a time *)

ValidCreate(req) ==
    req.op = "CreateVolume" /\ req.name # <<>> /\ req.volume_capabilities # <<>>

ValidPublish(req) ==
    /\ req.op = "NodePublishVolume"
    /\ req.volume_id # <<>>
    /\ req.target_path # <<>>
    /\ req.volume_capability # Nil

ValidUnpublish(req) ==
    /\ req.op = "NodeUnpublishVolume"
    /\ req.volume_id # <<>>
    /\ req.target_path # <<>>

ValidDelete(req) == req.op = "DeleteVolume" /\ req.volume_id # <<>>

\* C1: when CreateVolume is served a second time with the same non-empty
\* name and non-empty capabilities, both calls succeeded, both responses
\* carry the name as volume id, the backing directory exists, and the second
\* call added nothing to the directory tree.
C1_CreateTwice ==
    [][(ValidCreate(last'.req) /\ last'.repeatOf # Nil) =>
          /\ last'.err = "OK"
          /\ last'.repeatOf[1].err = "OK"
          /\ last'.resp.volume_id = last'.req.name
          /\ last'.repeatOf[1].resp.volume_id = last'.resp.volume_id
          /\ IsDir(fs', VolumeDir(last'.req.name))
          /\ fs' = fs]_vars

C1_Witness ==
    /\ ValidCreate(last.req)
    /\ last.repeatOf # Nil
    /\ last.err = "OK"
    /\ last.req.name = <<"a", "b">>
    /\ IsDir(fs, VolumeDir(last.req.name))

\* C2: when NodePublishVolume is served a second time with identical
\* arguments, both calls succeeded and the target carries exactly one mount.
C2_PublishTwiceOneMount ==
    (ValidPublish(last.req) /\ last.repeatOf # Nil) =>
        /\ last.err = "OK"
        /\ last.repeatOf[1].err = "OK"
        /\ Len(mounts[last.req.target_path]) = 1

\* C3: NodeUnpublishVolume with non-empty volume id and target path, on a
\* target no NodePublishVolume ever mounted on, returns success.
C3_UnpublishNeverPublished ==
    (ValidUnpublish(last.req) /\ last.req.target_path \notin everPublished) =>
        last.err = "OK"

\* C4: DeleteVolume with a non-empty id whose backing directory does not
\* exist returns success, and so does a DeleteVolume repeated for the same
\* id; the backing directory is absent afterwards.
C4_DeleteAbsent ==
    [][ValidDelete(last'.req) =>
          /\ ~IsDir(fs, VolumeDir(last'.req.volume_id)) =>
                 /\ last'.err = "OK"
                 /\ ~IsDir(fs', VolumeDir(last'.req.volume_id))
          /\ last'.repeatOf # Nil =>
                 /\ last'.err = "OK"
                 /\ last'.repeatOf[1].err = "OK"
                 /\ ~IsDir(fs', VolumeDir(last'.req.volume_id))]_vars

C4_Witness ==
    /\ ValidDelete(last.req)
    /\ last.repeatOf # Nil
    /\ last.err = "OK"
    /\ ~IsDir(fs, VolumeDir(last.req.volume_id))

\* C5: every target path carries mounts of at most one backing directory.
C5_OneSourcePerTarget ==
    \A t \in MountPoints :
        \A i, j \in 1..Len(mounts[t]) : mounts[t][i].src = mounts[t][j].src

\* A request that lacks a required field.
MissingField(req) ==
    \/ req.op = "CreateVolume"
          /\ (req.name = <<>> \/ req.volume_capabilities = <<>>)
    \/ req.op = "DeleteVolume" /\ req.volume_id = <<>>
    \/ req.op = "ValidateVolumeCapabilities"
          /\ (req.volume_id = <<>> \/ req.volume_capabilities = <<>>)
    \/ req.op = "NodePublishVolume"
          /\ \/ req.volume_id = <<>>
             \/ req.target_path = <<>>
             \/ req.volume_capability = Nil
    \/ req.op = "NodeUnpublishVolume"
          /\ (req.volume_id = <<>> \/ req.target_path = <<>>)

\* C7: a call whose request lacks a required field returns InvalidArgument
\* and leaves the directory tree and the mount table as they were.
C7_MissingFieldRejected ==
    [][MissingField(last'.req) =>
          /\ last'.err = "InvalidArgument"
          /\ fs' = fs
          /\ mounts' = mounts]_vars

C7_Witness ==
    /\ last.req.op = "CreateVolume"
    /\ last.req.name # <<>>
    /\ last.req.volume_capabilities = <<>>
    /\ last.err = "InvalidArgument"

----------------------------------------------------------------------------
(* A scripted client: one request, or one volume's whole life *)

\* 1 GiB
Gi == 1024 * 1024 * 1024

CapacityRanges ==
    {Nil,
     Some([required_bytes |-> 0, limit_bytes |-> Gi]),
     Some([required_bytes |-> Gi, limit_bytes |-> 0]),
     Some([required_bytes |-> Gi, limit_bytes |-> Gi + 1])}

ParameterMaps == {{}, {<<"type", "fast">>}}

\* Capability lists of at most n capabilities.
RECURSIVE CapabilityLists(_)
CapabilityLists(n) ==
    IF n = 0 THEN {<<>>}
    ELSE LET shorter == CapabilityLists(n - 1)
         IN  shorter \cup
             {Append(l, Capability(mode)) :
                  l \in {x \in shorter : Len(x) = n - 1}, mode \in AccessModes}

CreateScripts ==
    {<<req>> : req \in [op : {"CreateVolume"}, name : VolumeIds,
                        volume_capabilities : {<<>>, SingleWriter},
                        capacity_range : CapacityRanges,
                        parameters : ParameterMaps]}

ValidateScripts ==
    {<<req>> : req \in [op : {"ValidateVolumeCapabilities"},
                        volume_id : {<<>>, <<"a">>},
                        volume_capabilities : CapabilityLists(MaxCaps)]}

\* CreateVolume, NodePublishVolume, NodeUnpublishVolume, DeleteVolume for one
\* volume id and one target path.
Lifecycle(id, target, ro) ==
    << [op |-> "CreateVolume", name |-> id,
        volume_capabilities |-> SingleWriter,
        capacity_range |-> Nil, parameters |-> {}],
       [op |-> "NodePublishVolume", volume_id |-> id, target_path |-> target,
        volume_capability |-> Some(Capability("SINGLE_NODE_WRITER")),
        readonly |-> ro],
       [op |-> "NodeUnpublishVolume", volume_id |-> id,
        target_path |-> target],
       [op |-> "DeleteVolume", volume_id |-> id] >>

LifecycleScripts ==
    {Lifecycle(id, target, ro) :
         id \in VolumeIds \ {<<>>}, target \in MountPoints, ro \in BOOLEAN}

\* Directories earlier calls may have left behind: none, volume "a", or
\* volume "a" with "a/b" inside it.
EarlierVolumes ==
    {{}, {VolumeDir(<<"a">>)}, {VolumeDir(<<"a">>), VolumeDir(<<"a", "b">>)}}

PublishRequest(id, target) ==
    [op |-> "NodePublishVolume", volume_id |-> id, target_path |-> target,
     volume_capability |-> Some(Capability("SINGLE_NODE_WRITER")),
     readonly |-> FALSE]

UnpublishRequest(id, target) ==
    [op |-> "NodeUnpublishVolume", volume_id |-> id, target_path |-> target]

\* NodePublishVolume for a volume the client never created, or has just
\* deleted; and NodeUnpublishVolume for a target published once or twice,
\* naming any volume id.
NodeScripts ==
    LET ids == VolumeIds \ {<<>>}
    IN  {<<PublishRequest(id, t)>> : id \in ids, t \in MountPoints}
        \cup {<<[op |-> "DeleteVolume", volume_id |-> id],
                PublishRequest(id, t)>> : id \in ids, t \in MountPoints}
        \cup {<<PublishRequest(pt[1], pt[2]), UnpublishRequest(id, pt[2])>> :
                  pt \in ids \X MountPoints, id \in ids}
        \cup {<<PublishRequest(pt[1], pt[2]), PublishRequest(pt[1], pt[2]),
                UnpublishRequest(id, pt[2])>> :
                  pt \in ids \X MountPoints, id \in ids}

ClientInit ==
    /\ fs \in {InitFs \cup made \cup vols :
                   made \in PreparedTargets, vols \in EarlierVolumes}
    /\ mounts = NoMounts
    /\ last = NoCall
    /\ everPublished = {}
    /\ script \in CreateScripts \cup ValidateScripts \cup LifecycleScripts
                   \cup NodeScripts
    /\ results = <<>>
    /\ procs = <<>>
    /\ sockets = {}
    /\ run = Serving

\* The client has sent the head of its script and received its outcome.
Answered(out) ==
    /\ results' = Append(results, [req |-> Head(script), err |-> out.err,
                                   resp |-> out.resp])
    /\ script' = Tail(script)
    /\ UNCHANGED <<last, everPublished, procs, sockets, run>>

Sends(op) == script # <<>> /\ Head(script).op = op

ClientCreateVolume ==
    /\ Sends("CreateVolume")
    /\ LET out == CreateVolume(Head(script), fs)
       IN  fs' = out.fs /\ UNCHANGED mounts /\ Answered(out)

ClientDeleteVolume ==
    /\ Sends("DeleteVolume")
    /\ LET out == DeleteVolume(Head(script), fs)
       IN  fs' = out.fs /\ UNCHANGED mounts /\ Answered(out)

ClientValidateVolumeCapabilities ==
    /\ Sends("ValidateVolumeCapabilities")
    /\ LET out == ValidateVolumeCapabilities(Head(script), fs)
       IN  fs' = out.fs /\ UNCHANGED mounts /\ Answered(out)

ClientNodePublishVolume ==
    /\ Sends("NodePublishVolume")
    /\ LET out == NodePublishVolume(Head(script), fs, mounts)
       IN  fs' = out.fs /\ mounts' = out.mounts /\ Answered(out)

ClientNodeUnpublishVolume ==
    /\ Sends("NodeUnpublishVolume")
    /\ LET out == NodeUnpublishVolume(Head(script), fs, mounts)
       IN  fs' = out.fs /\ mounts' = out.mounts /\ Answered(out)

ClientNext ==
    \/ ClientCreateVolume
    \/ ClientDeleteVolume
    \/ ClientValidateVolumeCapabilities
    \/ ClientNodePublishVolume
    \/ ClientNodeUnpublishVolume

ClientSpec == ClientInit /\ [][ClientNext]_vars

----------------------------------------------------------------------------
(* Properties of single calls and of one volume's life *)

AllSupported(caps) ==
    \A i \in 1..Len(caps) : caps[i].access_mode \in SupportedModes

\* C6: ValidateVolumeCapabilities with a non-empty volume id and a non-empty
\* capability list returns no error; the response confirms the requested
\* capabilities, unchanged, exactly when every access mode is single-writer,
\* single-reader or multi-reader, and otherwise carries no confirmation and a
\* non-empty message.
C6_ValidateCapabilities ==
    \A k \in 1..Len(results) :
        LET req == results[k].req
            resp == results[k].resp
        IN  (/\ req.op = "ValidateVolumeCapabilities"
             /\ req.volume_id # <<>>
             /\ req.volume_capabilities # <<>>) =>
                /\ results[k].err = "OK"
                /\ IF AllSupported(req.volume_capabilities)
                   THEN resp.confirmed = Some(req.volume_capabilities)
                   ELSE resp.confirmed = Nil /\ resp.message # ""

\* A list whose first mode is supported and whose second is not.
C6_Witness ==
    /\ Len(results) = 1
    /\ results[1].req.op = "ValidateVolumeCapabilities"
    /\ results[1].req.volume_id # <<>>
    /\ Len(results[1].req.volume_capabilities) = 2
    /\ results[1].req.volume_capabilities[1].access_mode = "SINGLE_NODE_WRITER"
    /\ results[1].req.volume_capabilities[2].access_mode
           = "MULTI_NODE_MULTI_WRITER"
    /\ results[1].resp.confirmed = Nil

\* C8: a successful CreateVolume response carries the request's name as
\* volume id, the required bytes of the capacity range as capacity (zero
\* without a range) and the request's parameters as context.
C8_CreateResponse ==
    \A k \in 1..Len(results) :
        LET req == results[k].req
            resp == results[k].resp
        IN  (req.op = "CreateVolume" /\ results[k].err = "OK") =>
                /\ resp.volume_id = req.name
                /\ resp.capacity_bytes =
                       IF req.capacity_range = Nil THEN 0
                       ELSE req.capacity_range[1].required_bytes
                /\ resp.volume_context = req.parameters

\* name "a", required bytes 1 GiB, no parameters.
C8_Witness ==
    /\ Len(results) = 1
    /\ results[1].req.op = "CreateVolume"
    /\ results[1].req.name = <<"a">>
    /\ results[1].req.capacity_range # Nil
    /\ results[1].req.capacity_range[1].required_bytes = Gi
    /\ results[1].req.capacity_range[1].limit_bytes # Gi
    /\ results[1].req.parameters = {}
    /\ results[1].err = "OK"
    /\ results[1].resp.capacity_bytes = Gi
    /\ results[1].resp.volume_context = {}

\* The client has run a whole lifecycle script.
LifecycleDone ==
    /\ Len(results) = 4
    /\ script = <<>>
    /\ results[1].req.op = "CreateVolume"
    /\ results[4].req.op = "DeleteVolume"

\* C9: after CreateVolume, NodePublishVolume, NodeUnpublishVolume and
\* DeleteVolume for one volume id and one target path, all four calls have
\* succeeded, the target carries no mount and the backing directory is gone.
C9_Lifecycle ==
    LifecycleDone =>
        /\ \A k \in 1..4 : results[k].err = "OK"
        /\ mounts[results[2].req.target_path] = <<>>
        /\ ~IsDir(fs, VolumeDir(results[1].req.name))

C9_Witness ==
    /\ LifecycleDone
    /\ results[1].req.name = <<"a">>
    /\ \A k \in 1..4 : results[k].err = "OK"
    /\ IsDir(fs, results[2].req.target_path)
    /\ ~IsDir(fs, VolumeDir(<<"a">>))

----------------------------------------------------------------------------
(* Calls served concurrently: each system call is one step *)

\* The transport serves every call in a goroutine of its own.
Calls == 1..NumCalls

ConcurrentRequests ==
    [op : {"CreateVolume"}, name : VolumeIds,
     volume_capabilities : {SingleWriter},
     capacity_range : {Nil}, parameters : {{}}]

\* A call that has not run yet.  path and depth are os.MkdirAll's argument
\* and the length of the prefix of it the recursion is working on; mkdirErr
\* is the error of its failed Mkdir; lostRace records that a Mkdir of this
\* call found the directory made by somebody else.
Arrived(req) ==
    [req |-> req, pc |-> "start", path |-> <<>>, depth |-> 0,
     mkdirErr |-> "OK", lostRace |-> FALSE, err |-> "OK", resp |-> NoResp]

\* Directory trees calls may find: the fresh state directory, volume "a"
\* in it, or nothing at all (after DeleteVolume("..")).
ConcurrentInitFs == {InitFs, InitFs \cup {VolumeDir(<<"a">>)}, {}}

ConcurrentInit ==
    /\ fs \in ConcurrentInitFs
    /\ mounts = NoMounts
    /\ last = NoCall
    /\ everPublished = {}
    /\ script = <<>>
    /\ results = <<>>
    /\ procs \in [Calls -> {Arrived(req) : req \in ConcurrentRequests}]
    /\ sockets = {}
    /\ run = Serving

Returned(c, code, resp) ==
    [c EXCEPT !.pc = "done", !.err = code, !.resp = resp]

\* os.MkdirAll returns nil for the prefix of length c.depth: the caller's
\* frame goes on to Mkdir the next longer prefix, and the outermost frame
\* returns to its handler.  CreateVolume answers with the volume;
\* NodePublishVolume goes on from the volume directory to the target path,
\* and from the target path to the mount.
MkdirAllReturnsNil(c) ==
    IF c.depth < Len(c.path)
    THEN [c EXCEPT !.pc = "mkdir", !.depth = c.depth + 1]
    ELSE IF c.req.op = "CreateVolume"
    THEN Returned(c, "OK", CreatedVolume(c.req))
    ELSE IF c.made = "volumeDir"
    THEN [c EXCEPT !.pc = "stat", !.made = "targetPath",
                   !.path = c.req.target_path,
                   !.depth = Len(c.req.target_path)]
    ELSE [c EXCEPT !.pc = "mount"]

\* CreateVolume: the checks of the request, and the call of os.MkdirAll.
CreateVolumeStart(i) ==
    /\ procs[i].pc = "start"
    /\ procs[i].req.op = "CreateVolume"
    /\ LET c == procs[i]
           volumeDir == Join(stateDir, c.req.name)
       IN  procs' = [procs EXCEPT ![i] =
               IF c.req.name = <<>> \/ Len(c.req.volume_capabilities) = 0
               THEN Returned(c, "InvalidArgument", NoResp)
               ELSE [c EXCEPT !.pc = "stat", !.path = volumeDir,
                              !.depth = Len(volumeDir)]]
    /\ UNCHANGED <<fs, mounts, last, everPublished, script, results,
                   sockets, run>>

\* os.MkdirAll: Stat of the prefix.  A directory is success; otherwise the
\* parent is made first when there is one.
MkdirAllStat(i) ==
    /\ procs[i].pc = "stat"
    /\ LET c == procs[i]
           prefix == SubSeq(c.path, 1, c.depth)
       IN  procs' = [procs EXCEPT ![i] =
               IF IsDir(fs, prefix) THEN MkdirAllReturnsNil(c)
               ELSE IF c.depth > 1 THEN [c EXCEPT !.depth = c.depth - 1]
               ELSE [c EXCEPT !.pc = "mkdir"]]
    /\ UNCHANGED <<fs, mounts, last, everPublished, script, results,
                   sockets, run>>

\* os.MkdirAll: Mkdir of the prefix, its parent having been made.
MkdirAllMkdir(i) ==
    /\ procs[i].pc = "mkdir"
    /\ LET c == procs[i]
           prefix == SubSeq(c.path, 1, c.depth)
           m == Mkdir(fs, prefix)
       IN  /\ fs' = m.fs
           /\ procs' = [procs EXCEPT ![i] =
                  IF m.err = "OK" THEN MkdirAllReturnsNil(c)
                  ELSE [c EXCEPT !.pc = "lstat", !.mkdirErr = m.err,
                                 !.lostRace = @ \/ m.err = "EEXIST"]]
    /\ UNCHANGED <<mounts, last, everPublished, script, results,
                   sockets, run>>

\* os.MkdirAll: Lstat after the failed Mkdir; an error of MkdirAll is
\* Internal for CreateVolume.
MkdirAllLstat(i) ==
    /\ procs[i].pc = "lstat"
    /\ LET c == procs[i]
           prefix == SubSeq(c.path, 1, c.depth)
       IN  procs' = [procs EXCEPT ![i] =
               IF MkdirFailed(fs, prefix, c.mkdirErr) = "OK"
               THEN MkdirAllReturnsNil([c EXCEPT !.mkdirErr = "OK"])
               ELSE Returned(c, "Internal", NoResp)]
    /\ UNCHANGED <<fs, mounts, last, everPublished, script, results,
                   sockets, run>>

ConcurrentNext ==
    \E i \in Calls :
        \/ CreateVolumeStart(i)
        \/ MkdirAllStat(i)
        \/ MkdirAllMkdir(i)
        \/ MkdirAllLstat(i)

ConcurrentSpec == ConcurrentInit /\ [][ConcurrentNext]_vars

\* C10: two concurrent CreateVolume calls with the same name, once both have
\* returned, have both succeeded with the name as volume id, and the backing
\* directory exists.
C10_ConcurrentCreate ==
    \A i, j \in Calls :
        (/\ i # j
         /\ procs[i].pc = "done" /\ procs[j].pc = "done"
         /\ ValidCreate(procs[i].req)
         /\ procs[i].req.name = procs[j].req.name) =>
            /\ procs[i].err = "OK" /\ procs[j].err = "OK"
            /\ procs[i].resp.volume_id = procs[i].req.name
            /\ procs[j].resp.volume_id = procs[i].resp.volume_id
            /\ IsDir(fs, VolumeDir(procs[i].req.name))

\* Both calls for "a/b" have returned, and call 2 found a directory made by
\* call 1 when it tried to make it.
C10_Witness ==
    /\ procs[1].pc = "done" /\ procs[2].pc = "done"
    /\ procs[1].req.name = <<"a", "b">>
    /\ procs[2].req.name = <<"a", "b">>
    /\ procs[2].lostRace
    /\ procs[1].err = "OK" /\ procs[2].err = "OK"
    /\ IsDir(fs, VolumeDir(<<"a", "b">>))

----------------------------------------------------------------------------
(* Concurrent DeleteVolume calls: os.RemoveAll step by step *)

\* A DeleteVolume call that has not run yet.  path is os.RemoveAll's
\* argument; frames is the stack of its removeAllFrom activations, each with
\* the directory entry it removes, the names read from it that are still to
\* be removed, and the first error of a removal below it.  lostRace records
\* that removeAllFrom found an entry gone that was there before.  A directory
\* handle is modelled by the path it was opened at: the calls of this
\* specification only remove, so a path that is gone stays gone.
DeleteArrived(req) ==
    [req |-> req, pc |-> "start", path |-> <<>>, frames |-> <<>>,
     lostRace |-> FALSE, err |-> "OK", resp |-> NoResp]

Children(f, p) == {q \in f : Len(q) = Len(p) + 1 /\ IsPrefix(p, q)}

\* rmdir(2), also unlinkat(2) with AT_REMOVEDIR
Rmdir(f, p) ==
    IF p \notin f THEN [err |-> "ENOENT", fs |-> f]
    ELSE IF Children(f, p) # {} THEN [err |-> "ENOTEMPTY", fs |-> f]
    ELSE [err |-> "OK", fs |-> f \ {p}]

\* A removal that reports the entry it found gone as a failure.
RemovedStrict(e) == e = "OK"

\* os.RemoveAll's test `err == nil || IsNotExist(err)` after a removal.
Removed(e) == e = "OK" \/ e = "ENOENT"

ConcurrentDeleteInit ==
    /\ fs \in {InitFs \cup vols : vols \in EarlierVolumes}
    /\ mounts = NoMounts
    /\ last = NoCall
    /\ everPublished = {}
    /\ script = <<>>
    /\ results = <<>>
    /\ procs \in [Calls -> {DeleteArrived(req) : req \in DeleteVolumeRequests}]
    /\ sockets = {}
    /\ run = Serving

Top(c) == c.frames[Len(c.frames)]

\* The removeAllFrom activation on top of the stack goes on with the next
\* name it read, or with removing its own directory when none is left.
Resume(c) ==
    [c EXCEPT !.pc = IF Top(c).names = {} THEN "rmdir" ELSE "recurse"]

\* The removeAllFrom activation on top of the stack returns e.  The
\* outermost one returns to os.RemoveAll and that to DeleteVolume, which
\* answers Internal for an error; an inner one returns into the loop over
\* the names of its parent, which keeps the first error.
RemoveAllFromReturns(c, e) ==
    IF Len(c.frames) = 1
    THEN IF e = "OK"
         THEN Returned([c EXCEPT !.frames = <<>>], "OK",
                       [kind |-> "DeleteVolumeResponse"])
         ELSE Returned([c EXCEPT !.frames = <<>>], "Internal", NoResp)
    ELSE LET n == Len(c.frames) - 1
         IN  Resume([c EXCEPT !.frames =
                        [Front(c.frames) EXCEPT ![n].recurseErr =
                             IF @ = "OK" THEN e ELSE @]])

\* DeleteVolume: the check of the request, and the call of os.RemoveAll.
DeleteVolumeStart(i) ==
    /\ procs[i].pc = "start"
    /\ procs[i].req.op = "DeleteVolume"
    /\ LET c == procs[i]
       IN  procs' = [procs EXCEPT ![i] =
               IF c.req.volume_id = <<>>
               THEN Returned(c, "InvalidArgument", NoResp)
               ELSE [c EXCEPT !.pc = "remove",
                              !.path = Join(stateDir, c.req.volume_id)]]
    /\ UNCHANGED <<fs, mounts, last, everPublished, script, results,
                   sockets, run>>

\* os.RemoveAll: "Simple case: if Remove works, we're done."
RemoveAllRemove(i) ==
    /\ procs[i].pc = "remove"
    /\ LET c == procs[i]
           r == Rmdir(fs, c.path)
       IN  /\ fs' = r.fs
           /\ procs' = [procs EXCEPT ![i] =
                  IF Removed(r.err)
                  THEN Returned(c, "OK", [kind |-> "DeleteVolumeResponse"])
                  ELSE [c EXCEPT !.pc = "openparent"]]
    /\ UNCHANGED <<mounts, last, everPublished, script, results,
                   sockets, run>>

\* os.RemoveAll: Open of the parent directory; "If parent does not exist,
\* base cannot exist. Fail silently".  Otherwise removeAllFrom(parent, base).
RemoveAllOpenParent(i) ==
    /\ procs[i].pc = "openparent"
    /\ LET c == procs[i]
       IN  procs' = [procs EXCEPT ![i] =
               IF ~IsDir(fs, Front(c.path))
               THEN Returned(c, "OK", [kind |-> "DeleteVolumeResponse"])
               ELSE [c EXCEPT !.pc = "unlinkat",
                              !.frames = <<[path |-> c.path, names |-> {},
                                            recurseErr |-> "OK"]>>]]
    /\ UNCHANGED <<fs, mounts, last, everPublished, script, results,
                   sockets, run>>

\* removeAllFrom: unlinkat without AT_REMOVEDIR, then fstatat, then the open
\* of the directory.  Each of the three finds the entry gone (and the
\* activation returns nil) or still a directory.
RemoveAllFromProbe(i) ==
    /\ procs[i].pc \in {"unlinkat", "fstatat", "openat"}
    /\ LET c == procs[i]
       IN  procs' = [procs EXCEPT ![i] =
               IF ~IsDir(fs, Top(c).path)
               THEN RemoveAllFromReturns([c EXCEPT !.lostRace = TRUE], "OK")
               ELSE [c EXCEPT !.pc = CASE c.pc = "unlinkat" -> "fstatat"
                                       [] c.pc = "fstatat" -> "openat"
                                       [] OTHER -> "readdir"]]
    /\ UNCHANGED <<fs, mounts, last, everPublished, script, results,
                   sockets, run>>

\* removeAllFrom: Readdirnames of the opened directory; a directory removed
\* since it was opened reads as not existing.
RemoveAllFromReaddir(i) ==
    /\ procs[i].pc = "readdir"
    /\ LET c == procs[i]
           n == Len(c.frames)
       IN  procs' = [procs EXCEPT ![i] =
               IF ~IsDir(fs, Top(c).path)
               THEN RemoveAllFromReturns([c EXCEPT !.lostRace = TRUE], "OK")
               ELSE Resume([c EXCEPT !.frames[n].names =
                                         Children(fs, Top(c).path)])]
    /\ UNCHANGED <<fs, mounts, last, everPublished, script, results,
                   sockets, run>>

\* removeAllFrom: the loop over the names calls removeAllFrom for one of
\* them.
RemoveAllFromRecurse(i) ==
    /\ procs[i].pc = "recurse"
    /\ LET c == procs[i]
           n == Len(c.frames)
       IN  \E name \in Top(c).names :
               procs' = [procs EXCEPT ![i] =
                   [c EXCEPT !.pc = "unlinkat",
                             !.frames =
                                 Append([c.frames EXCEPT ![n].names =
                                             @ \ {name}],
                                        [path |-> name, names |-> {},
                                         recurseErr |-> "OK"])]]
    /\ UNCHANGED <<fs, mounts, last, everPublished, script, results,
                   sockets, run>>

\* removeAllFrom: "Remove the directory itself."  A failure returns the
\* first error of the removals below when there is one.
RemoveAllFromRmdir(i) ==
    /\ procs[i].pc = "rmdir"
    /\ LET c == procs[i]
           r == Rmdir(fs, Top(c).path)
       IN  /\ fs' = r.fs
           /\ procs' = [procs EXCEPT ![i] =
                  IF Removed(r.err)
                  THEN RemoveAllFromReturns(
                           [c EXCEPT !.lostRace = @ \/ r.err = "ENOENT"], "OK")
                  ELSE IF Top(c).recurseErr # "OK"
                       THEN RemoveAllFromReturns(c, Top(c).recurseErr)
                  ELSE RemoveAllFromReturns(c, r.err)]
    /\ UNCHANGED <<mounts, last, everPublished, script, results,
                   sockets, run>>

ConcurrentDeleteNext ==
    \E i \in Calls :
        \/ DeleteVolumeStart(i)
        \/ RemoveAllRemove(i)
        \/ RemoveAllOpenParent(i)
        \/ RemoveAllFromProbe(i)
        \/ RemoveAllFromReaddir(i)
        \/ RemoveAllFromRecurse(i)
        \/ RemoveAllFromRmdir(i)

ConcurrentDeleteSpec == ConcurrentDeleteInit /\ [][ConcurrentDeleteNext]_vars

\* C11: two concurrent DeleteVolume calls for the same volume id, once both
\* have returned, have both succeeded, and the backing directory is absent.
C11_ConcurrentDelete ==
    \A i, j \in Calls :
        (/\ i # j
         /\ procs[i].pc = "done" /\ procs[j].pc = "done"
         /\ ValidDelete(procs[i].req)
         /\ procs[i].req.volume_id = procs[j].req.volume_id) =>
            /\ procs[i].err = "OK" /\ procs[j].err = "OK"
            /\ ~IsDir(fs, VolumeDir(procs[i].req.volume_id))

\* Both calls for "a" have returned with success, volume "a" having held
\* "a/b" when they began, and call 2 found an entry gone inside
\* removeAllFrom.
C11_Witness ==
    /\ procs[1].pc = "done" /\ procs[2].pc = "done"
    /\ procs[1].req.volume_id = <<"a">>
    /\ procs[2].req.volume_id = <<"a">>
    /\ procs[2].lostRace
    /\ procs[1].err = "OK" /\ procs[2].err = "OK"
    /\ procs[1].resp.kind = "DeleteVolumeResponse"
    /\ procs[2].resp.kind = "DeleteVolumeResponse"
    /\ ~IsDir(fs, VolumeDir(<<"a">>))

----------------------------------------------------------------------------
(* Concurrent NodePublishVolume and NodeUnpublishVolume calls for one volume
   id and one target path *)

\* The calls a client may have in flight for the pair.
NodeRequests(id, target) ==
    [op : {"NodePublishVolume"}, volume_id : {id}, target_path : {target},
     volume_capability : {Some(Capability("SINGLE_NODE_WRITER"))},
     readonly : BOOLEAN]
    \cup [op : {"NodeUnpublishVolume"}, volume_id : {id},
          target_path : {target}]

\* A node call that has not run yet.  made says which of its two
\* directories NodePublishVolume's os.MkdirAll is making; arrival is the
\* directory tree and mount table the call arrived in.
NodeArrived(req, f, m) ==
    [req |-> req, pc |-> "start", path |-> <<>>, depth |-> 0,
     made |-> "volumeDir", mkdirErr |-> "OK", lostRace |-> FALSE,
     err |-> "OK", resp |-> NoResp,
     arrival |-> [fs |-> f, mounts |-> m]]

\* The calls arrive together, all for one volume id and one target path.
ConcurrentNodeInit ==
    /\ fs \in {InitFs \cup made \cup vols :
                   made \in PreparedTargets, vols \in EarlierVolumes}
    /\ mounts = NoMounts
    /\ last = NoCall
    /\ everPublished = {}
    /\ script = <<>>
    /\ results = <<>>
    /\ \E id \in {<<"a">>, <<"a", "b">>}, target \in MountPoints :
           procs \in [Calls -> {NodeArrived(req, fs, mounts) :
                                    req \in NodeRequests(id, target)}]
    /\ sockets = {}
    /\ run = Serving

\* NodePublishVolume: the checks of the request, and the call of
\* os.MkdirAll for the volume directory.
NodePublishVolumeStart(i) ==
    /\ procs[i].pc = "start"
    /\ procs[i].req.op = "NodePublishVolume"
    /\ LET c == procs[i]
           volumeDir == Join(stateDir, c.req.volume_id)
       IN  procs' = [procs EXCEPT ![i] =
               IF \/ c.req.volume_id = <<>>
                  \/ c.req.target_path = <<>>
                  \/ c.req.volume_capability = Nil
               THEN Returned(c, "InvalidArgument", NoResp)
               ELSE [c EXCEPT !.pc = "stat", !.path = volumeDir,
                              !.depth = Len(volumeDir)]]
    /\ UNCHANGED <<fs, mounts, last, everPublished, script, results,
                   sockets, run>>

\* NodePublishVolume: syscall.Mount, both directories having been made.
NodePublishVolumeMount(i) ==
    /\ procs[i].pc = "mount"
    /\ LET c == procs[i]
           volumeDir == Join(stateDir, c.req.volume_id)
           mnt == Mount(fs, mounts, volumeDir, c.req.target_path,
                        c.req.readonly)
       IN  /\ mounts' = mnt.mounts
           /\ procs' = [procs EXCEPT ![i] =
                  IF mnt.err # "OK" THEN Returned(c, "Internal", NoResp)
                  ELSE Returned(c, "OK",
                                [kind |-> "NodePublishVolumeResponse"])]
    /\ UNCHANGED <<fs, last, everPublished, script, results,
                   sockets, run>>

\* NodeUnpublishVolume: its checks touch the request only, and its one
\* system call is syscall.Unmount.
NodeUnpublishVolumeRun(i) ==
    /\ procs[i].pc = "start"
    /\ procs[i].req.op = "NodeUnpublishVolume"
    /\ LET c == procs[i]
           out == NodeUnpublishVolume(c.req, fs, mounts)
       IN  /\ fs' = out.fs
           /\ mounts' = out.mounts
           /\ procs' = [procs EXCEPT ![i] = Returned(c, out.err, out.resp)]
    /\ UNCHANGED <<last, everPublished, script, results,
                   sockets, run>>

ConcurrentNodeNext ==
    \E i \in Calls :
        \/ NodePublishVolumeStart(i)
        \/ MkdirAllStat(i)
        \/ MkdirAllMkdir(i)
        \/ MkdirAllLstat(i)
        \/ NodePublishVolumeMount(i)
        \/ NodeUnpublishVolumeRun(i)

ConcurrentNodeSpec == ConcurrentNodeInit /\ [][ConcurrentNodeNext]_vars

\* The orders in which the calls can be served one after the other.
SerialOrders ==
    {order \in [Calls -> Calls] : \A i \in Calls : \E k \in Calls : order[k] = i}

ServeNode(req, f, m) ==
    IF req.op = "NodePublishVolume" THEN NodePublishVolume(req, f, m)
    ELSE NodeUnpublishVolume(req, f, m)

\* The calls served whole, one after the other, from position k of the
\* order on: the outcome of each call and the state after the last.
RECURSIVE ServedInOrder(_, _, _, _)
ServedInOrder(order, k, f, m) ==
    IF k > NumCalls THEN [outs |-> <<>>, fs |-> f, mounts |-> m]
    ELSE LET out == ServeNode(procs[order[k]].req, f, m)
             rest == ServedInOrder(order, k + 1, out.fs, out.mounts)
         IN  [outs |-> <<[err |-> out.err, resp |-> out.resp]>> \o rest.outs,
              fs |-> rest.fs, mounts |-> rest.mounts]

\* C12: concurrent NodePublishVolume and NodeUnpublishVolume calls for one
\* volume id and one target path, once all have returned, have the outcomes
\* and have left the directory tree and the mount table that serving them
\* one after the other in some order would have.
C12_SerialOrder ==
    (\A i \in Calls : procs[i].pc = "done") =>
        \E order \in SerialOrders :
            LET serial == ServedInOrder(order, 1, procs[1].arrival.fs,
                                        procs[1].arrival.mounts)
            IN  /\ serial.fs = fs
                /\ serial.mounts = mounts
                /\ \A k \in Calls :
                       /\ serial.outs[k].err = procs[order[k]].err
                       /\ serial.outs[k].resp = procs[order[k]].resp

----------------------------------------------------------------------------
(* Properties of the bindings and of the volume store *)

\* C13: after a successful NodePublishVolume the target's topmost mount is
\* of the backing directory of the volume id, and it is read-only exactly
\* when the request asked for read-only.
C13_ReadOnlyHonoured ==
    (ValidPublish(last.req) /\ last.err = "OK") =>
        LET bound == Last(mounts[last.req.target_path])
        IN  /\ bound.src = VolumeDir(last.req.volume_id)
            /\ bound.ro = last.req.readonly

\* C16: a successful NodeUnpublishVolume for a target that NodePublishVolume
\* has mounted on, once or more often, leaves the target without a mount.
C16_UnpublishUnbinds ==
    (/\ ValidUnpublish(last.req)
     /\ last.err = "OK"
     /\ last.req.target_path \in everPublished) =>
        mounts[last.req.target_path] = <<>>

StrictlyInside(dir, p) == IsPrefix(dir, p) /\ p # dir

\* The directories that are in one of two trees only.
Touched(f, g) == (f \ g) \cup (g \ f)

\* C18: every directory a CreateVolume, DeleteVolume or NodePublishVolume
\* call makes or removes lies strictly inside the state directory, the
\* target path of NodePublishVolume and its parents excepted.
C18_Confined ==
    [][last'.req.op \in {"CreateVolume", "DeleteVolume", "NodePublishVolume"} =>
          \A q \in Touched(fs, fs') :
              \/ StrictlyInside(stateDir, q)
              \/ /\ last'.req.op = "NodePublishVolume"
                 /\ IsPrefix(q, last'.req.target_path)]_vars

\* C19: a successful DeleteVolume leaves the backing directory of every
\* other volume id in place, with the directories in it.  Stated for volume
\* ids whose backing directories lie strictly inside the state directory.
C19_DeleteFrame ==
    [][(/\ ValidDelete(last'.req)
        /\ last'.err = "OK"
        /\ StrictlyInside(stateDir, VolumeDir(last'.req.volume_id))) =>
          \A id \in VolumeIds \ {<<>>} :
              (/\ StrictlyInside(stateDir, VolumeDir(id))
               /\ VolumeDir(id) # VolumeDir(last'.req.volume_id)
               /\ IsDir(fs, VolumeDir(id))) =>
                  \A q \in fs : IsPrefix(VolumeDir(id), q) => q \in fs']_vars

\* The call the scripted client was answered last.
Answer == results[Len(results)]

\* The directories CreateVolume makes for a volume id in an empty tree: the
\* backing directory and the directories above it.
CreateVolumeMakes(id) ==
    CreateVolume([op |-> "CreateVolume", name |-> id,
                  volume_capabilities |-> SingleWriter,
                  capacity_range |-> Nil, parameters |-> {}], {}).fs

\* C15: after a successful NodePublishVolume the directory bound at the
\* target is the backing directory CreateVolume makes for the same id, and
\* both it and the target directory exist.
C15_PublishMakesDirectories ==
    (results # <<>> /\ ValidPublish(Answer.req) /\ Answer.err = "OK") =>
        LET bound == Last(mounts[Answer.req.target_path])
            made == CreateVolumeMakes(Answer.req.volume_id)
        IN  /\ bound.src \in made
            /\ \A q \in made : IsPrefix(q, bound.src)
            /\ IsDir(fs, bound.src)
            /\ IsDir(fs, Answer.req.target_path)

\* The client deleted volume "a/b" and then published it at /pods/y, which
\* did not exist when it began; both directories exist now.
C15_Witness ==
    /\ Len(results) = 2
    /\ results[1].req = [op |-> "DeleteVolume", volume_id |-> <<"a", "b">>]
    /\ results[1].err = "OK"
    /\ results[2].req = PublishRequest(<<"a", "b">>, <<"pods", "y">>)
    /\ results[2].err = "OK"
    /\ Last(mounts[<<"pods", "y">>]).src = VolumeDir(<<"a", "b">>)
    /\ IsDir(fs, VolumeDir(<<"a", "b">>))
    /\ IsDir(fs, <<"pods", "y">>)

\* The successful NodePublishVolume calls for a target among the answers.
PublishedAt(target) ==
    {k \in 1..Len(results) :
         /\ results[k].req.op = "NodePublishVolume"
         /\ results[k].req.target_path = target
         /\ results[k].err = "OK"}

\* C20: NodeUnpublishVolume for a target has the same outcome and leaves
\* the same directory tree and mount table whatever non-empty volume id it
\* names; and the first NodeUnpublishVolume after successful publishes to its
\* target succeeds and removes one mount, whichever id it names.
C20_UnpublishIgnoresVolumeId ==
    /\ \A t \in MountPoints, id1, id2 \in VolumeIds \ {<<>>} :
           NodeUnpublishVolume(UnpublishRequest(id1, t), fs, mounts)
               = NodeUnpublishVolume(UnpublishRequest(id2, t), fs, mounts)
    /\ (/\ results # <<>>
        /\ ValidUnpublish(Answer.req)
        /\ PublishedAt(Answer.req.target_path) # {}) =>
           /\ Answer.err = "OK"
           /\ Len(mounts[Answer.req.target_path])
                  = Cardinality(PublishedAt(Answer.req.target_path)) - 1

\* The client published volume "a/b" at /pods/x and unpublished /pods/x
\* naming volume "a"; nothing is mounted there any more.
C20_Witness ==
    /\ Len(results) = 2
    /\ results[1].req = PublishRequest(<<"a", "b">>, <<"pods", "x">>)
    /\ results[1].err = "OK"
    /\ results[2].req = UnpublishRequest(<<"a">>, <<"pods", "x">>)
    /\ results[2].err = "OK"
    /\ mounts[<<"pods", "x">>] = <<>>

----------------------------------------------------------------------------
(* Driver.Run *)

\* What url.Parse makes of the endpoints Run may be given: unix endpoints
\* with and without a host part, a tcp endpoint, endpoints of another scheme
\* and of none, and one that does not parse.
Endpoints ==
    {[parses |-> TRUE, scheme |-> "unix", host |-> <<>>,
      path |-> <<"run", "csi", "csi.sock">>],
     [parses |-> TRUE, scheme |-> "unix", host |-> <<>>,
      path |-> <<"csi.sock">>],
     [parses |-> TRUE, scheme |-> "unix", host |-> <<"run">>,
      path |-> <<"csi", ".", "csi.sock">>],
     [parses |-> TRUE, scheme |-> "tcp", host |-> <<"0.0.0.0:9000">>,
      path |-> <<>>],
     [parses |-> TRUE, scheme |-> "http", host |-> <<"localhost">>,
      path |-> <<>>],
     [parses |-> TRUE, scheme |-> "", host |-> <<>>,
      path |-> <<"run", "csi", "csi.sock">>],
     [parses |-> FALSE, scheme |-> "", host |-> <<>>, path |-> <<>>]}

\* What an earlier run, or somebody else, may have left at and above the
\* socket paths: directories, socket files, and a directory (empty or not)
\* where the socket should be.
LeftBehind ==
    LET run1 == {<<"run">>}
        run2 == {<<"run">>, <<"run", "csi">>}
        sock == <<"run", "csi", "csi.sock">>
    IN  {[dirs |-> {}, sockets |-> {}],
         [dirs |-> {}, sockets |-> {<<"csi.sock">>}],
         [dirs |-> run1, sockets |-> {}],
         [dirs |-> run2, sockets |-> {}],
         [dirs |-> run2, sockets |-> {sock}],
         [dirs |-> run2, sockets |-> {sock, <<"csi.sock">>}],
         [dirs |-> run2 \cup {sock}, sockets |-> {}],
         [dirs |-> run2 \cup {sock, sock \o <<"x">>}, sockets |-> {}]}

\* main calls Run right after driver.New.
RunInit ==
    /\ \E left \in LeftBehind :
           /\ fs = InitFs \cup left.dirs
           /\ sockets = left.sockets
    /\ mounts = NoMounts
    /\ last = NoCall
    /\ everPublished = {}
    /\ script = <<>>
    /\ results = <<>>
    /\ procs = <<>>
    /\ run \in {[pc |-> "parse", endpoint |-> e, addr |-> <<>>,
                 removeErr |-> "OK", listened |-> FALSE, err |-> "OK"] :
                    e \in Endpoints}

\* Run returns an error.
RunFails(r, e) == [r EXCEPT !.pc = "returned", !.err = e]

\* os.Remove: unlink(2), and rmdir(2) when the path is not a file.
Remove(f, s, p) ==
    IF p \in s THEN [err |-> "OK", fs |-> f, sockets |-> s \ {p}]
    ELSE LET r == Rmdir(f, p)
         IN  [err |-> r.err, fs |-> r.fs, sockets |-> s]

\* Run going on whatever os.Remove returned.
RemoveFailedNever(e) == FALSE

\* Run's test `err != nil && !os.IsNotExist(err)` of os.Remove's error.
RemoveFailed(e) == e # "OK" /\ e # "ENOENT"

\* net.Listen: a unix listener binds a new socket file, which fails when
\* the path exists or its directory does not; a tcp listener gets its port
\* when the port is free.
Listen(f, s, scheme, addr, free) ==
    IF scheme = "unix"
    THEN IF addr \in s \/ addr \in f
         THEN [err |-> "EADDRINUSE", sockets |-> s]
         ELSE IF ~IsDir(f, Front(addr))
         THEN [err |-> "ENOENT", sockets |-> s]
         ELSE [err |-> "OK", sockets |-> s \cup {addr}]
    ELSE [err |-> IF free THEN "OK" ELSE "EADDRINUSE", sockets |-> s]

\* Run: url.Parse and the switch on the scheme.
RunParse ==
    /\ run.pc = "parse"
    /\ LET u == run.endpoint
       IN  run' = IF ~u.parses THEN RunFails(run, "invalid endpoint")
                  ELSE IF u.scheme = "unix"
                  THEN [run EXCEPT !.pc = "remove",
                                   !.addr = Join(u.host, u.path)]
                  ELSE IF u.scheme = "tcp"
                  THEN [run EXCEPT !.pc = "listen", !.addr = u.host]
                  ELSE RunFails(run, "unsupported endpoint scheme")
    /\ UNCHANGED <<fs, mounts, last, everPublished, script, results, procs,
                   sockets>>

\* Run: "Remove a stale socket left over from a previous crash."
RunRemove ==
    /\ run.pc = "remove"
    /\ LET r == Remove(fs, sockets, run.addr)
       IN  /\ fs' = r.fs
           /\ sockets' = r.sockets
           /\ run' = IF RemoveFailed(r.err)
                     THEN RunFails([run EXCEPT !.removeErr = r.err],
                                   "failed to remove stale socket")
                     ELSE [run EXCEPT !.pc = "mkdirall", !.removeErr = r.err]
    /\ UNCHANGED <<mounts, last, everPublished, script, results, procs>>

\* Run: os.MkdirAll of the socket's directory.
RunMkdirAll ==
    /\ run.pc = "mkdirall"
    /\ LET made == MkdirAll(fs, Front(run.addr))
       IN  /\ fs' = made.fs
           /\ run' = IF made.err # "OK"
                     THEN RunFails(run, "failed to create socket dir")
                     ELSE [run EXCEPT !.pc = "listen"]
    /\ UNCHANGED <<mounts, last, everPublished, script, results, procs,
                   sockets>>

\* Run: net.Listen.
RunListen ==
    /\ run.pc = "listen"
    /\ \E free \in BOOLEAN :
           LET l == Listen(fs, sockets, run.endpoint.scheme, run.addr, free)
           IN  /\ sockets' = l.sockets
               /\ run' = IF l.err # "OK"
                         THEN RunFails(run, "failed to listen")
                         ELSE [run EXCEPT !.pc = "serve", !.listened = TRUE]
    /\ UNCHANGED <<fs, mounts, last, everPublished, script, results, procs>>

\* Run: the server is made with the interceptor, the three services are
\* registered, and Serve blocks.
RunServe ==
    /\ run.pc = "serve"
    /\ run' = [run EXCEPT !.pc = "serving"]
    /\ UNCHANGED <<fs, mounts, last, everPublished, script, results, procs,
                   sockets>>

RunNext ==
    \/ RunParse
    \/ RunRemove
    \/ RunMkdirAll
    \/ RunListen
    \/ RunServe

RunSpec == RunInit /\ [][RunNext]_vars

\* C17: on a unix endpoint Run is at its listen step only when nothing is
\* left at the socket path and the socket's directory exists; and when the
\* removal failed for another reason than the path not existing, or the
\* scheme is neither unix nor tcp, Run returns an error and has neither
\* listened nor gone on to listen or serve.
C17_RunOrder ==
    /\ (run.endpoint.scheme = "unix" /\ run.pc = "listen") =>
           /\ run.addr \notin sockets
           /\ run.addr \notin fs
           /\ IsDir(fs, Front(run.addr))
    /\ (/\ run.endpoint.parses
        /\ run.pc # "parse"
        /\ \/ run.endpoint.scheme \notin {"unix", "tcp"}
           \/ run.removeErr \notin {"OK", "ENOENT"}) =>
           /\ run.pc = "returned"
           /\ run.err # "OK"
           /\ ~run.listened

\* Run serves on /run/csi/csi.sock, having removed the socket file an
\* earlier run left there.
C17_Witness ==
    /\ run.pc = "serving"
    /\ run.endpoint.scheme = "unix"
    /\ run.addr = <<"run", "csi", "csi.sock">>
    /\ run.removeErr = "OK"
    /\ run.listened
    /\ run.addr \in sockets
    /\ IsDir(fs, <<"run", "csi">>)

----------------------------------------------------------------------------
(* logInterceptor around one call *)

\* The handler the transport passes to the interceptor for a request.
Handler(req, f, m) ==
    IF req.op = "NodePublishVolume" THEN NodePublishVolume(req, f, m)
    ELSE IF req.op = "NodeUnpublishVolume" THEN NodeUnpublishVolume(req, f, m)
    ELSE LET out == IF req.op = "CreateVolume" THEN CreateVolume(req, f)
                    ELSE IF req.op = "DeleteVolume" THEN DeleteVolume(req, f)
                    ELSE ValidateVolumeCapabilities(req, f)
         IN  [err |-> out.err, resp |-> out.resp, fs |-> out.fs, mounts |-> m]

\* A call entering the interceptor.  handled is what the handler returned,
\* once it has; handlerCalls counts its invocations; log is what klog was
\* given.
Intercepted(req) ==
    [req |-> req, pc |-> "entry", handled |-> Nil, handlerCalls |-> 0,
     log |-> <<>>, err |-> "OK", resp |-> NoResp]

InterceptInit ==
    /\ fs \in {InitFs \cup made : made \in PreparedTargets}
    /\ mounts = NoMounts
    /\ last = NoCall
    /\ everPublished = {}
    /\ script = <<>>
    /\ results = <<>>
    /\ procs \in {<<Intercepted(req)>> :
                      req \in CreateVolumeRequests \cup DeleteVolumeRequests
                              \cup ValidateRequests \cup NodePublishRequests
                              \cup NodeUnpublishRequests}
    /\ sockets = {}
    /\ run = Serving

\* An interceptor answering every failure of the handler with Internal.
ReturnInternal(resp, err) ==
    [resp |-> resp, err |-> IF err = "OK" THEN "OK" ELSE "Internal"]

\* logInterceptor: `return resp, err`
Return(resp, err) == [resp |-> resp, err |-> err]

\* logInterceptor: the line logged on entry.
InterceptEntry ==
    /\ procs[1].pc = "entry"
    /\ procs' = [procs EXCEPT ![1].pc = "handler",
                              ![1].log = Append(@, "RPC")]
    /\ UNCHANGED <<fs, mounts, last, everPublished, script, results,
                   sockets, run>>

\* logInterceptor: `resp, err := handler(ctx, req)`
InterceptHandler ==
    /\ procs[1].pc = "handler"
    /\ LET out == Handler(procs[1].req, fs, mounts)
       IN  /\ fs' = out.fs
           /\ mounts' = out.mounts
           /\ procs' = [procs EXCEPT
                  ![1].pc = "exit",
                  ![1].handlerCalls = @ + 1,
                  ![1].handled = Some([resp |-> out.resp, err |-> out.err])]
    /\ UNCHANGED <<last, everPublished, script, results, sockets, run>>

\* logInterceptor: an error whose status code is not OK is logged, and the
\* handler's response and error are returned.
InterceptExit ==
    /\ procs[1].pc = "exit"
    /\ LET c == procs[1]
           h == c.handled[1]
           out == Return(h.resp, h.err)
       IN  procs' = [procs EXCEPT
               ![1].pc = "done",
               ![1].log = IF h.err # "OK" THEN Append(@, "RPC failed") ELSE @,
               ![1].resp = out.resp,
               ![1].err = out.err]
    /\ UNCHANGED <<fs, mounts, last, everPublished, script, results,
                   sockets, run>>

InterceptNext ==
    \/ InterceptEntry
    \/ InterceptHandler
    \/ InterceptExit

InterceptSpec == InterceptInit /\ [][InterceptNext]_vars

\* C14: the interceptor never invokes the handler more than once, and when
\* it has returned it has invoked the handler exactly once and has returned
\* the response and the error the handler returned.
C14_InterceptorTransparent ==
    /\ procs[1].handlerCalls <= 1
    /\ procs[1].pc = "done" =>
           /\ procs[1].handlerCalls = 1
           /\ procs[1].resp = procs[1].handled[1].resp
           /\ procs[1].err = procs[1].handled[1].err

\* The interceptor has returned the InvalidArgument of a CreateVolume without
\* a name, logged it, and invoked the handler once.
C14_Witness ==
    /\ procs[1].pc = "done"
    /\ procs[1].req.op = "CreateVolume"
    /\ procs[1].req.name = <<>>
    /\ procs[1].handlerCalls = 1
    /\ procs[1].handled[1].err = "InvalidArgument"
    /\ procs[1].err = "InvalidArgument"
    /\ procs[1].log = <<"RPC", "RPC failed">>

----------------------------------------------------------------------------
(* NodePublishVolume calls in flight together with DeleteVolume calls, which
   take directories away under them.  A directory handle of os.RemoveAll is
   modelled by its path, which lets a removal act on a directory made anew
   at that path: the specification has every behaviour of the calls and
   some more. *)

\* Publishes that lack a field, publishes of volumes "a" and "a/b" at
\* /pods/x, and the deletion of volume "a".
PublishDeleteRequests ==
    {PublishRequest(<<"a">>, <<"pods", "x">>),
     PublishRequest(<<"a", "b">>, <<"pods", "x">>),
     PublishRequest(<<>>, <<"pods", "x">>),
     PublishRequest(<<"a">>, <<>>),
     [PublishRequest(<<"a">>, <<"pods", "x">>)
          EXCEPT !.volume_capability = Nil],
     [op |-> "DeleteVolume", volume_id |-> <<"a">>]}

PublishDeleteArrived(req, f, m) ==
    IF req.op = "DeleteVolume" THEN DeleteArrived(req)
    ELSE NodeArrived(req, f, m)

PublishDeleteInit ==
    /\ fs \in {InitFs \cup made \cup vols :
                   made \in PreparedTargets, vols \in EarlierVolumes}
    /\ mounts = NoMounts
    /\ last = NoCall
    /\ everPublished = {}
    /\ script = <<>>
    /\ results = <<>>
    /\ procs \in [Calls -> {PublishDeleteArrived(req, fs, mounts) :
                                req \in PublishDeleteRequests}]
    /\ sockets = {}
    /\ run = Serving

PublishDeleteNext ==
    \E i \in Calls :
        \/ NodePublishVolumeStart(i)
        \/ MkdirAllStat(i)
        \/ MkdirAllMkdir(i)
        \/ MkdirAllLstat(i)
        \/ NodePublishVolumeMount(i)
        \/ DeleteVolumeStart(i)
        \/ RemoveAllRemove(i)
        \/ RemoveAllOpenParent(i)
        \/ RemoveAllFromProbe(i)
        \/ RemoveAllFromReaddir(i)
        \/ RemoveAllFromRecurse(i)
        \/ RemoveAllFromRmdir(i)

PublishDeleteSpec == PublishDeleteInit /\ [][PublishDeleteNext]_vars

\* The NodePublishVolume calls for a target that have returned success.
Published(target) ==
    {i \in Calls : /\ procs[i].req.op = "NodePublishVolume"
                   /\ procs[i].req.target_path = target
                   /\ procs[i].pc = "done"
                   /\ procs[i].err = "OK"}

\* C21: a NodePublishVolume call that returned an error, InvalidArgument or
\* Internal, has added no mount and removed none: every target carries
\* exactly one mount for each NodePublishVolume call for it that returned
\* success, of that call's backing directory.
C21_FailedPublishMountsNothing ==
    \A t \in MountPoints :
        /\ Len(mounts[t]) = Cardinality(Published(t))
        /\ \A k \in 1..Len(mounts[t]) :
               \E i \in Published(t) :
                   mounts[t][k].src = VolumeDir(procs[i].req.volume_id)

\* Call 1, a publish of "a" at /pods/x, returned Internal: it made /pods/x,
\* which was not there when it arrived and still is, then call 2 deleted
\* the volume directory, and the mount found it missing; nothing is mounted.
C21_Witness ==
    /\ procs[1].req = PublishRequest(<<"a">>, <<"pods", "x">>)
    /\ procs[1].pc = "done"
    /\ procs[1].err = "Internal"
    /\ procs[1].made = "targetPath"
    /\ ~procs[1].lostRace
    /\ ~IsDir(procs[1].arrival.fs, <<"pods", "x">>)
    /\ IsDir(fs, <<"pods", "x">>)
    /\ procs[2].req.op = "DeleteVolume"
    /\ procs[2].pc = "done"
    /\ ~IsDir(fs, VolumeDir(<<"a">>))
    /\ mounts = NoMounts

----------------------------------------------------------------------------
(* The frame of NodeUnpublishVolume *)

\* C22: a NodeUnpublishVolume call, whatever it returns, leaves the
\* directory tree as it was (the target directory and every backing
\* directory with what is in it), leaves the mounts of every other target
\* as they were, and at its own target removes the topmost mount or nothing.
C22_UnpublishFrame ==
    [][last'.req.op = "NodeUnpublishVolume" =>
          /\ fs' = fs
          /\ \A t \in MountPoints :
                 \/ mounts'[t] = mounts[t]
                 \/ /\ t = last'.req.target_path
                    /\ mounts[t] # <<>>
                    /\ mounts'[t] = Front(mounts[t])]_vars

\* /pods/x and /pods/y were both published, and /pods/x has been
\* unpublished: it carries no mount and still exists, /pods/y still carries
\* its mount, and the backing directory of that mount exists.
C22_Witness ==
    /\ last.req.op = "NodeUnpublishVolume"
    /\ last.req.target_path = <<"pods", "x">>
    /\ last.err = "OK"
    /\ everPublished = MountPoints
    /\ mounts[<<"pods", "x">>] = <<>>
    /\ IsDir(fs, <<"pods", "x">>)
    /\ Len(mounts[<<"pods", "y">>]) = 1
    /\ IsDir(fs, mounts[<<"pods", "y">>][1].src)

====
